---- MODULE Spec2Model ----
(***************************************************************************)
(* A model of the tiberius TDS client session: packet segmentation         *)
(* (InternalConnection::send_packet), packet id allocation, the            *)
(* prelogin/login handshake (InternalConnection::initialize) and the       *)
(* statement surface (StatementInternal, PreparedStatement).               *)
(*                                                                         *)
(* A message body is a Vec<u8> whose bytes the framing code never          *)
(* inspects; a buffer is modelled as the run [lo, hi) of positions of the  *)
(* message body it holds, so that Vec::len, Vec::is_empty and              *)
(* Vec::split_off are exact on it and real sizes (4096-byte packets,       *)
(* bodies beyond 65535 bytes) can be explored.                             *)
(***************************************************************************)
EXTENDS Integers, Sequences, FiniteSets, TLC

VARIABLES
    state,           \* InternalConnection.state
    last_packet_id,  \* InternalConnection.last_packet_id (u8)
    packet_size,     \* InternalConnection.packet_size (u16)
    opts,            \* InternalConnection.opts: lengths of user, password, database
    pc,              \* position of the single thread of control
    cont,            \* where send_packet returns to
    op,              \* the public operation in progress or last returned
    result,          \* what the last public operation returned
    retval,          \* the value carried by an Ok result (row count / number of rows)
    pkt,             \* send_packet's local `packet` (RawPacket)
    body_len,        \* length of the body built by the current send_packet call
    out,             \* packets written to the stream by the current / last send_packet call
    send_status,     \* "none", "active", "ok", "err", "panic": outcome of the last send_packet call
    out_base,        \* number of packets written to the stream before the current send_packet call
    nwritten,        \* number of packets written to the stream so far
    nalloc,          \* number of alloc_id calls so far
    last_alloc,      \* value returned by the most recent alloc_id call
    inbox,           \* packets the server has put on the transport and the client has not read
    awaiting,        \* types of the complete requests the server has received and not answered
    login_tokens,    \* token stream of the login response, as parsed by initialize
    prepared,        \* a PreparedStatement exists
    handle,          \* StatementInfo.handle of the prepared statement (None = -1)
    prep_sql,        \* length of the SQL text of the prepared statement
    trace,           \* the steps initialize has executed, in order
    ops_done,        \* number of statement operations started
    broken,          \* a write on the transport has failed; later writes fail too
    column_infos,    \* StatementInfo.column_infos of the statement of the current / last query
    rows,            \* QueryResult.rows of the last query: the values of each Row
    prep_cols,       \* StatementInfo.column_infos of the prepared statement
    pq_calls,        \* number of PreparedStatement::query calls on the prepared statement
    proc_ids,        \* proc ids of the RPC requests written by the current / last operation
    params,          \* the parameter vector of the last PreparedStatement::query call
    param_str,       \* the parameter declaration string built by the last do_prepare
    resp,            \* the response the server sent to the current / last request
    obf,             \* the password byte under obfuscation: input, current value, passes
    env,             \* an ENVCHANGE token under decoding: the packet bytes, where the
                     \* token starts, the cursor, the outcome
    wire             \* one packet on the transport: header written, its bytes, the reads
                     \* the transport serves, and what read_packet made of them

vars == <<state, last_packet_id, packet_size, opts, pc, cont, op, result, retval,
          pkt, body_len, out, send_status, out_base, nwritten, nalloc, last_alloc,
          inbox, awaiting, login_tokens, prepared, handle, prep_sql, trace, ops_done,
          broken, column_infos, rows, prep_cols, pq_calls, proc_ids, params, param_str,
          resp, obf, wire, env>>

\* what only the statement surface touches
stmt_vars == <<column_infos, rows, prep_cols, pq_calls, proc_ids, params, param_str>>

\* what only the encoders and decoders exercised on their own touch
codec_vars == <<obf, wire, env>>

----------------------------------------------------------------------------
(* Bounds *)

MaxOps == 2          \* statement operations per session

(* Program constants *)

HEADER_SIZE == 8
DefaultPacketSize == 4096
IdModulus == 255
U16 == 65536
AllHeadersLen == 22
PreloginBodyLen == 39
LoginFixedLen == 94
LibNameLen == 8
DoneCount == 16
DoneMore == 1
DoneError == 2
NullLen == 65535
NoMetaData == 65535

(* RpcProcId *)
SpPrepare == 11
SpExecute == 12

(* PacketType *)
SqlBatch == 1
Rpc == 3
TabularResult == 4
Login == 16
PreLogin == 18

(* PacketStatus *)
NormalMessage == 0
EndOfMessage == 1

None == -1

----------------------------------------------------------------------------
(* Inputs *)

\* number of UTF-16 code units of the SQL text given to exec / query / prepare
SqlLens == {0, 241, 2033, 32752, 32753, 32807}

\* number of UTF-16 code units of the SQL text of a prepared statement
PrepSqlLens == {47, 16326}

\* the parameter vectors given to PreparedStatement::query, as the Rust type of
\* each value: &[&3i32], no value, and vectors of three and four values
ParamSets == { <<"i32">>,
               << >>,
               <<"u8", "i16", "u32", "i64">>,
               <<"&str", "f64", "f32">> }

\* ToColumnType::column_type of a value of the Rust type ty
column_type(ty) ==
    CASE ty \in {"i8", "u8"} -> "tinyint"
      [] ty \in {"i16", "u16"} -> "smallint"
      [] ty \in {"i32", "u32"} -> "int"
      [] ty \in {"i64", "u64"} -> "bigint"
      [] ty = "f32" -> "float(24)"
      [] ty = "f64" -> "float(53)"
      [] ty = "&str" -> "nvarchar"

\* ConnectionOptions: lengths of user name, password and database name
OptionSets == { [user |-> 4, pass |-> 4, db |-> 4],
                [user |-> 2000, pass |-> 8, db |-> 20] }

\* a token: kind, two numbers, and for COLMETADATA its columns, for ROW its values
Tok(t, a, b) == [t |-> t, a |-> a, b |-> b, cols |-> << >>, vals |-> << >>]

\* ColumnData: flags (bit 0 = nullable) and the type of the column
Col(flags, ty) == [flags |-> flags, ty |-> ty]
ColInt == Col(0, "Int4")
ColNVarcharNull == Col(1, "NVarchar")
ColNVarchar == Col(0, "NVarchar")
PreloginOpts(valid) == Tok("PreloginOpts", valid, 0)
LoginAck == Tok("LoginAck", 0, 0)
EnvPacketSize(x) == Tok("EnvChange", 4, x)
EnvDatabase == Tok("EnvChange", 1, 0)
Done(status, count) == Tok("Done", status, count)
DoneProc(status, count) == Tok("DoneProc", status, count)
ErrorTok(code) == Tok("Error", code, 0)
DoneInProc(status, count) == Tok("DoneInProc", status, count)
\* COLMETADATA: count and the columns
Colmetadata(cols) == [Tok("Colmetadata", Len(cols), 0) EXCEPT !.cols = cols]
\* COLMETADATA whose count is the 0xFFFF sentinel: nothing follows the count
NoColmetadata == Tok("Colmetadata", NoMetaData, 0)
\* COLMETADATA with count n followed by the NoMetaData marker instead of columns
ColmetadataNoMetaData(n) == Tok("Colmetadata", n, NoMetaData)
\* ROW on the wire: per column the length prefix of a variable-length value
\* (NullLen for NULL) or the value of a fixed-length one
Row(vals) == [Tok("Row", Len(vals), 0) EXCEPT !.vals = vals]
ReturnStatus == Tok("ReturnStatus", 0, 0)
ReturnValue(isHandle, v) == Tok("ReturnValue", isHandle, v)
Order == Tok("Order", 0, 0)
UnknownTok == Tok("Unknown", 0, 0)

Pkt(status, payload) ==
    [kind |-> "pkt", ptype |-> TabularResult, status |-> status, payload |-> payload]
EofMark == [kind |-> "eof", ptype |-> 0, status |-> 0, payload |-> <<>>]
BadHeader == [kind |-> "badhdr", ptype |-> 0, status |-> 0, payload |-> <<>>]

PreloginResponses ==
    { <<Pkt(EndOfMessage, <<PreloginOpts(1)>>)>>,
      <<Pkt(EndOfMessage, <<PreloginOpts(0)>>)>>,
      <<Pkt(NormalMessage, <<>>), Pkt(EndOfMessage, <<PreloginOpts(1)>>)>>,
      <<EofMark>> }

LoginResponses ==
    { <<Pkt(EndOfMessage, <<LoginAck, EnvPacketSize(512), Done(0, 0)>>)>>,
      <<Pkt(EndOfMessage, <<LoginAck, Done(0, 0)>>)>>,
      <<Pkt(EndOfMessage, <<EnvPacketSize(32767), Done(0, 0)>>)>>,
      <<Pkt(EndOfMessage, <<ErrorTok(18456), Done(2, 0)>>)>>,
      <<Pkt(EndOfMessage, <<LoginAck, EnvPacketSize(None), Done(0, 0)>>)>>,
      <<Pkt(EndOfMessage, <<LoginAck, EnvPacketSize(70000), Done(0, 0)>>)>>,
      <<Pkt(NormalMessage, <<LoginAck>>),
        Pkt(EndOfMessage, <<EnvPacketSize(512), Done(0, 0)>>)>>,
      <<Pkt(EndOfMessage, <<EnvDatabase, LoginAck, Done(0, 0)>>)>>,
      <<Pkt(EndOfMessage, <<UnknownTok>>)>>,
      <<BadHeader>>,
      <<EofMark>> }

TwoCols == <<ColInt, ColNVarcharNull>>

StmtResponses ==
    { <<Pkt(EndOfMessage, <<Done(DoneCount, 3)>>)>>,
      <<Pkt(EndOfMessage, <<Colmetadata(TwoCols), Row(<<7, 10>>), Row(<<8, NullLen>>),
                            Done(DoneCount, 2)>>)>>,
      <<Pkt(EndOfMessage, <<ErrorTok(208), Done(DoneError, 0)>>)>>,
      <<Pkt(NormalMessage, <<Colmetadata(TwoCols), Row(<<7, 10>>)>>),
        Pkt(EndOfMessage, <<Row(<<8, 12>>), Done(DoneCount, 2)>>)>>,
      <<Pkt(NormalMessage, <<Done(DoneCount, 1)>>),
        Pkt(EndOfMessage, <<Done(DoneCount, 1)>>)>>,
      <<Pkt(EndOfMessage, <<ReturnValue(1, 7), ReturnStatus, DoneProc(0, 0)>>)>>,
      <<EofMark>> }

\* further responses to a statement: an error raised inside a trigger, a batch of
\* two statements, a batch of two result sets, a NULL in a column declared NOT NULL
MoreStmtResponses ==
    { <<Pkt(EndOfMessage, <<DoneInProc(DoneCount, 1), ErrorTok(208),
                            Done(DoneError, 0)>>)>>,
      <<Pkt(EndOfMessage, <<Done(DoneMore + DoneCount, 1), Done(DoneCount, 2)>>)>>,
      <<Pkt(EndOfMessage, <<Colmetadata(TwoCols), Row(<<7, 10>>),
                            Done(DoneMore + DoneCount, 1),
                            Colmetadata(<<ColInt>>), Row(<<9>>), Done(DoneCount, 1)>>)>>,
      <<Pkt(EndOfMessage, <<Colmetadata(<<ColNVarchar>>), Row(<<NullLen>>),
                            Done(DoneCount, 1)>>)>> }

\* responses that exercise the token parsers: metadata suppressed for the second
\* result set (count 0xFFFF), a count followed by the NoMetaData marker, a ROW
\* without any COLMETADATA, a SELECT with ORDER BY, an sp_prepare that failed
\* although a handle is returned, a handle followed by a handle that is no I32
TokenResponses ==
    { <<Pkt(EndOfMessage, <<Colmetadata(TwoCols), Row(<<7, 10>>), NoColmetadata,
                            Row(<<8, NullLen>>), Done(DoneCount, 2)>>)>>,
      <<Pkt(EndOfMessage, <<Colmetadata(TwoCols), Row(<<7, 10>>),
                            Done(DoneMore + DoneCount, 1), ColmetadataNoMetaData(1),
                            Done(DoneCount, 0)>>)>>,
      <<Pkt(EndOfMessage, <<Row(<< >>), Done(DoneCount, 1)>>)>>,
      <<Pkt(EndOfMessage, <<Colmetadata(<<ColInt>>), Order, Row(<<7>>), Row(<<9>>),
                            Done(DoneCount, 2)>>)>>,
      <<Pkt(EndOfMessage, <<ErrorTok(8180), ReturnValue(1, 5), ReturnStatus,
                            DoneProc(DoneError, 0)>>)>>,
      <<Pkt(EndOfMessage, <<ReturnValue(1, 7), ReturnValue(1, None), ReturnStatus,
                            DoneProc(0, 0)>>)>> }

----------------------------------------------------------------------------
(* Message builders: the length of the serialized body *)

\* ALL_HEADERS (22 bytes) followed by the SQL text as UTF-16LE
SqlBatchBodyLen(n) == AllHeadersLen + 2 * n

\* fixed preamble, 13 offset/length slots and client id, then the strings as UTF-16LE
LoginBodyLen(o) == LoginFixedLen + 2 * (o.user + o.pass + LibNameLen + LibNameLen + o.db)

\* sp_prepare: ALL_HEADERS, proc id, flags, "handle" (I32), "params" and "stmt" (nvarchar)
RpcPrepareBodyLen(paramStrLen, n) ==
    AllHeadersLen + 4 + 2
    + (1 + 2 * 6 + 1 + 7)
    + (1 + 2 * 6 + 1 + 10 + 2 * paramStrLen)
    + (1 + 2 * 4 + 1 + 10 + 2 * n)

\* format!("{}", i) for the parameter numbers of the model
ToStr(i) ==
    CASE i = 1 -> "1" [] i = 2 -> "2" [] i = 3 -> "3" [] i = 4 -> "4" [] i = 5 -> "5"
      [] i = 6 -> "6" [] i = 7 -> "7" [] i = 8 -> "8" [] i = 9 -> "9"

\* str::len of the pieces a parameter declaration string is made of
PieceLen(piece) ==
    CASE piece = "@P" -> 2
      [] piece \in {" ", ","} -> 1
      [] piece \in {"1", "2", "3", "4", "5", "6", "7", "8", "9"} -> 1
      [] piece = "int" -> 3
      [] piece = "bigint" -> 6
      [] piece = "tinyint" -> 7
      [] piece \in {"smallint", "nvarchar"} -> 8
      [] piece \in {"float(24)", "float(53)"} -> 9

\* String::len of a string held as the sequence of its pieces
RECURSIVE StrLen(_)
StrLen(str) == IF str = << >> THEN 0 ELSE PieceLen(Head(str)) + StrLen(Tail(str))

\* a loop that pushes the comma after every declaration
RECURSIVE ParamStrLoopTrailingComma(_, _, _)
ParamStrLoopTrailingComma(ps, i, acc) ==
    IF i >= Len(ps) THEN acc
    ELSE ParamStrLoopTrailingComma(ps, i + 1,
             acc \o <<"@P", ToStr(i + 1), " ">> \o <<column_type(ps[i + 1])>> \o <<",">>)

\* the loop of do_prepare over params: i is its counter before the pass, acc is
\* param_str; each pass pushes ',' when i > 0, then "@P{i} " with the incremented
\* counter, then column_type()
RECURSIVE ParamStrLoop(_, _, _)
ParamStrLoop(ps, i, acc) ==
    IF i >= Len(ps) THEN acc
    ELSE LET withComma == IF i > 0 THEN Append(acc, ",") ELSE acc
         IN  ParamStrLoop(ps, i + 1,
                 withComma \o <<"@P", ToStr(i + 1), " ">> \o <<column_type(ps[i + 1])>>)

----------------------------------------------------------------------------
(* Packet framer *)

\* PacketHeader::new()
PacketHeaderNew ==
    [ptype |-> 0, status |-> NormalMessage, length |-> 0, spid |-> <<0, 0>>, id |-> 0,
     window |-> 0]

EmptyPkt == [ptype |-> 0, status |-> NormalMessage, length |-> 0, id |-> 0, lo |-> 0, hi |-> 0]

DataLen(p) == p.hi - p.lo

\* `8 + buf.len() as u16`: the cast truncates; the addition panics (debug) or wraps
\* (release) when it exceeds u16.  The set of header lengths the builds can produce;
\* None stands for the panic.
BuildLengths(L) ==
    LET t == L % U16
    IN  IF HEADER_SIZE + t < U16 THEN {HEADER_SIZE + t}
        ELSE {(HEADER_SIZE + t) % U16, None}

\* build_packet: serialize the message, header from PacketHeader::new() with its
\* type, status EndOfMessage and the computed length
BuildPacket(ptype, L, len) ==
    [ptype |-> ptype, status |-> EndOfMessage, length |-> len, id |-> 0, lo |-> 0, hi |-> L]

\* RawPacket::update_len
UpdateLen(p) == [p EXCEPT !.length = (HEADER_SIZE + DataLen(p)) % U16]

\* alloc_id with the counter wrapping at 256 instead of 255
AllocIdMod256(last) == [id |-> last, next |-> (last + 1) % 256]

\* alloc_id: the id handed out and the new counter
AllocId(last) == [id |-> last, next |-> (last + 1) % IdModulus]

\* split_off that loses the byte at the split position
SplitOffDropsByte(p, idx) ==
    [current |-> [lo |-> p.lo, hi |-> p.lo + idx],
     next    |-> [lo |-> p.lo + idx + 1, hi |-> p.hi]]

\* split_off that keeps only half of the bytes asked for
SplitOffHalf(p, idx) ==
    [current |-> [lo |-> p.lo, hi |-> p.lo + (idx + 1) \div 2],
     next    |-> [lo |-> p.lo + (idx + 1) \div 2, hi |-> p.hi]]

\* Vec::split_off(idx) on the run [lo, hi): the part kept and the part returned
SplitOff(p, idx) ==
    [current |-> [lo |-> p.lo, hi |-> p.lo + idx],
     next    |-> [lo |-> p.lo + idx, hi |-> p.hi]]

\* one pass through the body of send_packet's while loop: the packet handed to
\* write_packet and the data kept for the next pass
SplitStep(p, size) ==
    IF size > DataLen(p) + HEADER_SIZE
    THEN [packet |-> [p EXCEPT !.status = EndOfMessage],
          next   |-> [lo |-> p.hi, hi |-> p.hi]]
    ELSE LET idx == (size - HEADER_SIZE) % U16
             s   == SplitOff(p, idx)
         IN  [packet |-> [p EXCEPT !.lo = s.current.lo, !.hi = s.current.hi],
              next   |-> s.next]

----------------------------------------------------------------------------
(* Reading from the transport *)

\* ReadPacket::read_packet: one header and its payload.  Requires q /= << >>.
ReadPacket(q) ==
    LET h == Head(q)
    IN  IF h.kind = "eof" THEN [res |-> "UnexpectedEOF", p |-> h, rest |-> q]
        ELSE IF h.kind = "badhdr" THEN [res |-> "ProtocolError", p |-> h, rest |-> Tail(q)]
        ELSE [res |-> "Ok", p |-> h, rest |-> Tail(q)]

\* read_message: read packets until one with EndOfMessage, concatenating the
\* payloads.  "Block" when the transport holds no complete message yet.
RECURSIVE ReadMessageFrom(_, _)
ReadMessageFrom(q, acc) ==
    IF q = << >> THEN [res |-> "Block", p |-> EofMark, rest |-> q]
    ELSE LET r == ReadPacket(q)
         IN  IF r.res /= "Ok" THEN r
             ELSE LET joined == [r.p EXCEPT !.payload = acc \o r.p.payload]
                  IN  IF r.p.status = NormalMessage
                      THEN ReadMessageFrom(r.rest, joined.payload)
                      ELSE [res |-> "Ok", p |-> joined, rest |-> r.rest]

ReadMessage(q) == ReadMessageFrom(q, << >>)

----------------------------------------------------------------------------
(* Token-stream parsers *)

\* handle_token_stream and TokenStreamEnvChange::decode: outcome of decoding one token
HandleTokenStream(tok) ==
    CASE tok.t \in {"Error", "LoginAck", "Done", "DoneProc", "DoneInProc",
                    "ReturnStatus", "ReturnValue"} -> "Ok"
      [] tok.t = "EnvChange" -> IF tok.a = 4 THEN "Ok" ELSE "panic"
      [] tok.t \in {"Colmetadata", "Row", "Order"} -> "Other"
      [] tok.t = "Truncated" -> "UnexpectedEOF"
      [] OTHER -> "ProtocolError"

\* the loop of into_general_token_stream: the tokens in payload order, or the
\* outcome of the first token that does not decode
RECURSIVE ParseTokens(_, _)
ParseTokens(payload, i) ==
    IF i > Len(payload) THEN [res |-> "Ok", tokens |-> payload]
    ELSE LET o == HandleTokenStream(payload[i])
         IN  IF o = "Ok" THEN ParseTokens(payload, i + 1)
             ELSE [res |-> o, tokens |-> << >>]

IntoGeneralTokenStream(p) == ParseTokens(p.payload, 1)

\* ColumnData::is_nullable
IsNullable(col) == col.flags % 2 = 1

\* ColumnValue::decode(cursor, &column.type_info): the value read for a column
\* from the wire value w; v = None is ColumnValue::None.  Only the type of the
\* column is passed to it.
ColumnValueDecode(col, w) ==
    CASE col.ty = "Int4" -> [res |-> "Ok", v |-> w]
      [] col.ty = "NVarchar" ->
            IF w = NullLen THEN [res |-> "Ok", v |-> None] ELSE [res |-> "Ok", v |-> w]
      [] col.ty = "Intn" ->
            IF w = 0 THEN [res |-> "Ok", v |-> None]
            ELSE IF w \in {1, 2, 4, 8} THEN [res |-> "Ok", v |-> w]
            ELSE [res |-> "ProtocolError", v |-> None]
      [] OTHER -> [res |-> "panic", v |-> None]

\* TokenStreamRow::decode_stmt: one value per column of stmt.column_infos.  Bytes
\* of the row left over are read as the next token (the values of the model start
\* with no token byte); a row shorter than the columns runs into what follows it.
RECURSIVE RowDecodeStmt(_, _, _, _)
RowDecodeStmt(cols, vals, i, acc) ==
    IF i > Len(cols)
    THEN [res |-> IF Len(vals) > Len(cols) THEN "ProtocolError" ELSE "Ok", values |-> acc]
    ELSE IF i > Len(vals) THEN [res |-> "UnexpectedEOF", values |-> acc]
    ELSE LET d == ColumnValueDecode(cols[i], vals[i])
         IN  IF d.res /= "Ok" THEN [res |-> d.res, values |-> acc]
             ELSE RowDecodeStmt(cols, vals, i + 1, Append(acc, d.v))

\* a decoder that looks at the count only
ColmetadataDecodeStmtByCount(tok, cols) == IF tok.a = NoMetaData THEN cols ELSE tok.cols

\* TokenStreamColmetadata::decode_stmt: the column_infos after the token; a count
\* of 0xFFFF leaves them alone, and so does 0xFFFF in the two bytes after the
\* count; otherwise they are cleared and refilled with the columns of the token
ColmetadataDecodeStmt(tok, cols) ==
    IF tok.a = NoMetaData \/ tok.b = NoMetaData THEN cols ELSE tok.cols

\* the loop of into_stmt_token_stream: the decoded tokens in payload order and
\* the column_infos it leaves in the StatementInfo, or the outcome of the first
\* token that does not decode
RECURSIVE ParseStmtTokens(_, _, _, _)
ParseStmtTokens(payload, i, cols, acc) ==
    IF i > Len(payload) THEN [res |-> "Ok", tokens |-> acc, cols |-> cols]
    ELSE LET tok == payload[i]
         IN  CASE tok.t = "Colmetadata" ->
                    \* the two bytes after a count other than 0xFFFF are read even
                    \* when the count is 0
                    IF tok.a = 0 /\ i = Len(payload)
                    THEN [res |-> "UnexpectedEOF", tokens |-> << >>, cols |-> cols]
                    ELSE ParseStmtTokens(payload, i + 1, ColmetadataDecodeStmt(tok, cols),
                                         Append(acc, tok))
               [] tok.t = "Row" ->
                    LET d == RowDecodeStmt(cols, tok.vals, 1, << >>)
                    IN  IF d.res = "Ok"
                        THEN ParseStmtTokens(payload, i + 1, cols,
                                             Append(acc, Row(d.values)))
                        ELSE [res |-> d.res, tokens |-> << >>, cols |-> cols]
               [] OTHER ->
                    LET o == HandleTokenStream(tok)
                    IN  IF o = "Ok"
                        THEN ParseStmtTokens(payload, i + 1, cols, Append(acc, tok))
                        ELSE [res |-> o, tokens |-> << >>, cols |-> cols]

IntoStmtTokenStream(p, cols) == ParseStmtTokens(p.payload, 1, cols, << >>)

\* RawPacket::into_prelogin: the two assertions, then the option list
IntoPrelogin(p) ==
    IF p.ptype /= TabularResult \/ p.status /= EndOfMessage THEN "panic"
    ELSE IF Len(p.payload) = 1 /\ p.payload[1] = PreloginOpts(1) THEN "Ok"
    ELSE IF p.payload = << >> THEN "UnexpectedEOF"
    ELSE "ProtocolError"

\* a catch_error that lets every token stream pass
CatchErrorNever(tokens) == "Ok"

\* Packet::catch_error on a token stream
CatchError(tokens) ==
    IF \E i \in 1..Len(tokens) : tokens[i].t = "Error" THEN "ServerError" ELSE "Ok"

\* x.parse::<u16>() of the decimal string of x; None is a string that is no number
ParseU16(x) == IF x \in 0..(U16 - 1) THEN x ELSE None

\* the token loop of initialize: the packet size after tokens i.., None when a
\* PacketSize value does not parse
RECURSIVE PacketSizeLoop(_, _, _)
PacketSizeLoop(tokens, i, size) ==
    IF i > Len(tokens) THEN size
    ELSE IF tokens[i].t = "EnvChange" /\ tokens[i].a = 4
         THEN IF ParseU16(tokens[i].b) = None THEN None
              ELSE PacketSizeLoop(tokens, i + 1, ParseU16(tokens[i].b))
         ELSE PacketSizeLoop(tokens, i + 1, size)

----------------------------------------------------------------------------
(* State after InternalConnection::new *)

\* no password is being obfuscated
ObfIdle == obf = [in |-> 0, out |-> 0, n |-> 0]

\* no packet is being written or read on its own
WireIdle ==
    wire = [hdr |-> PacketHeaderNew, bytes |-> << >>, reads |-> << >>,
            parsed |-> PacketHeaderNew, got |-> 0, res |-> "none", step |-> "idle"]

\* no ENVCHANGE token is being decoded on its own
EnvIdle ==
    env = [bytes |-> << >>, start |-> 0, length |-> 0, pos |-> 0, res |-> "none",
           disc |-> 0, step |-> "idle"]

\* no encoder or decoder is being exercised on its own
CodecIdle == ObfIdle /\ WireIdle /\ EnvIdle

Init ==
    /\ state = "Initial"
    /\ last_packet_id = 0
    /\ packet_size = DefaultPacketSize
    /\ opts \in OptionSets
    /\ pc = "new"
    /\ cont = "none"
    /\ op = "connect"
    /\ result = "none"
    /\ retval = 0
    /\ pkt = EmptyPkt
    /\ body_len = 0
    /\ out = << >>
    /\ send_status = "none"
    /\ out_base = 0
    /\ nwritten = 0
    /\ nalloc = 0
    /\ last_alloc = None
    /\ inbox = << >>
    /\ awaiting = << >>
    /\ login_tokens = << >>
    /\ prepared = FALSE
    /\ handle = None
    /\ prep_sql = 0
    /\ trace = << >>
    /\ ops_done = 0
    /\ broken = FALSE
    /\ column_infos = << >>
    /\ rows = << >>
    /\ prep_cols = << >>
    /\ pq_calls = 0
    /\ proc_ids = << >>
    /\ params = << >>
    /\ param_str = << >>
    /\ resp = << >>
    /\ CodecIdle

----------------------------------------------------------------------------
(* Returning from a public operation *)

\* an initialize whose error is dropped, so that connect wraps the session anyway
ErrPcKeepsConnection(o) == "idle"

\* where control is after operation o returned an error: a failed connect yields
\* no Connection, a failed statement leaves the caller with its Connection
ErrPc(o) == IF o = "connect" THEN "failed" ELSE "idle"

\* an operation returns res (an error kind) without touching the send state
ReturnErr(o, res) ==
    /\ pc' = IF res = "panic" THEN "panicked" ELSE ErrPc(o)
    /\ result' = res
    /\ retval' = 0
    /\ cont' = "none"

\* outcomes of one write_packet call: a transport that failed once stays failed
WriteOutcomes == IF broken THEN {FALSE} ELSE {TRUE, FALSE}

\* the server sees a request once its EndOfMessage packet is on the wire
Delivered(p) == IF p.status = EndOfMessage THEN Append(awaiting, p.ptype) ELSE awaiting

----------------------------------------------------------------------------
(* InternalConnection::send_packet *)

\* alloc_id as a state change
DoAllocId ==
    LET a == AllocId(last_packet_id)
    IN  /\ last_packet_id' = a.next
        /\ last_alloc' = a.id
        /\ nalloc' = nalloc + 1

\* send_packet up to and including its first write: build_packet, then either the
\* single write of the unsplit path or the entry of the splitting loop.  k is the
\* caller's continuation, o the public operation.
SendPacket(ptype, L, k, o) ==
    /\ body_len' = L
    /\ out_base' = nwritten
    /\ \E len \in BuildLengths(L) :
          IF len = None
          THEN /\ ReturnErr(o, "panic")
               /\ send_status' = "panic"
               /\ pkt' = EmptyPkt
               /\ out' = << >>
               /\ UNCHANGED <<last_packet_id, last_alloc, nalloc, nwritten, awaiting,
                              broken>>
          ELSE LET p == BuildPacket(ptype, L, len)
               IN  IF p.length < packet_size
                   THEN \* header.id = self.alloc_id() sets the local header, the
                        \* packet keeps the id build_packet copied into it
                        /\ DoAllocId
                        /\ pkt' = p
                        /\ \E ok \in WriteOutcomes :
                              IF ok
                              THEN /\ out' = <<p>>
                                   /\ nwritten' = nwritten + 1
                                   /\ send_status' = "ok"
                                   /\ awaiting' = Delivered(p)
                                   /\ pc' = k
                                   /\ cont' = "none"
                                   /\ result' = "none"
                                   /\ retval' = 0
                                   /\ UNCHANGED broken
                              ELSE /\ out' = << >>
                                   /\ send_status' = "err"
                                   /\ broken' = TRUE
                                   /\ ReturnErr(o, "IoError")
                                   /\ UNCHANGED <<nwritten, awaiting>>
                   ELSE /\ pkt' = [p EXCEPT !.status = NormalMessage]
                        /\ out' = << >>
                        /\ result' = "none"
                        /\ retval' = 0
                        /\ IF DataLen(p) = 0
                           THEN /\ pc' = k
                                /\ cont' = "none"
                                /\ send_status' = "ok"
                           ELSE /\ pc' = "send_loop"
                                /\ cont' = k
                                /\ send_status' = "active"
                        /\ UNCHANGED <<last_packet_id, last_alloc, nalloc, nwritten,
                                       awaiting, broken>>

\* one pass through the while loop of send_packet, and the loop test after it
SendLoop ==
    /\ pc = "send_loop"
    /\ UNCHANGED codec_vars
    /\ UNCHANGED <<state, packet_size, opts, op, body_len, out_base, inbox,
                   login_tokens, prepared, handle, prep_sql, trace, ops_done,
                   stmt_vars, resp>>
    /\ IF /\ ~(packet_size > DataLen(pkt) + HEADER_SIZE)
          /\ (packet_size - HEADER_SIZE) % U16 > DataLen(pkt)
       THEN \* split_off past the end of the vector
            /\ ReturnErr(op, "panic")
            /\ send_status' = "panic"
            /\ UNCHANGED <<pkt, out, last_packet_id, last_alloc, nalloc, nwritten,
                           awaiting, broken>>
       ELSE LET s == SplitStep(pkt, packet_size)
                w == UpdateLen([s.packet EXCEPT !.id = AllocId(last_packet_id).id])
            IN  /\ DoAllocId
                /\ \E ok \in WriteOutcomes :
                      IF ok
                      THEN /\ out' = Append(out, w)
                           /\ nwritten' = nwritten + 1
                           /\ pkt' = [w EXCEPT !.lo = s.next.lo, !.hi = s.next.hi]
                           /\ UNCHANGED <<broken, result, retval>>
                           /\ IF s.next.hi = s.next.lo
                              THEN /\ pc' = cont
                                   /\ cont' = "none"
                                   /\ send_status' = "ok"
                                   /\ awaiting' = Delivered(w)
                              ELSE /\ UNCHANGED <<pc, cont, send_status, awaiting>>
                      ELSE /\ send_status' = "err"
                           /\ broken' = TRUE
                           /\ ReturnErr(op, "IoError")
                           /\ UNCHANGED <<pkt, out, nwritten, awaiting>>

----------------------------------------------------------------------------
(* The server *)

ResponsesFor(ptype) ==
    CASE ptype = PreLogin -> PreloginResponses
      [] ptype = Login -> LoginResponses
      [] OTHER -> StmtResponses

\* the oldest complete request is answered with one logical message out of R
ServerRespondWith(R) ==
    /\ \E r \in R :
          /\ inbox' = inbox \o r
          /\ resp' = IF Head(awaiting) \in {SqlBatch, Rpc} THEN r ELSE resp
    /\ awaiting' = Tail(awaiting)
    /\ UNCHANGED codec_vars
    /\ UNCHANGED <<state, last_packet_id, packet_size, opts, pc, cont, op, result,
                   retval, pkt, body_len, out, send_status, out_base, nwritten, nalloc,
                   last_alloc, login_tokens, prepared, handle, prep_sql, trace,
                   ops_done, broken, stmt_vars>>

\* the server answers the oldest complete request
ServerRespond ==
    /\ awaiting /= << >>
    /\ ServerRespondWith(ResponsesFor(Head(awaiting)))

\* the server of a session that is past the handshake, with the further responses
ServerRespondStmt ==
    /\ awaiting /= << >>
    /\ ServerRespondWith(StmtResponses \cup MoreStmtResponses \cup TokenResponses)

----------------------------------------------------------------------------
(* Connection::connect / InternalConnection::initialize *)

\* the steps of a complete handshake, in the order initialize executes them
HandshakeSteps ==
    <<"send_prelogin", "read_prelogin", "set_PreloginPerformed",
      "send_login7", "read_login", "set_Ready">>

\* initialize up to its first read: send the PRELOGIN message
InitializeSendPrelogin ==
    /\ pc = "new"
    /\ UNCHANGED codec_vars
    /\ trace' = Append(trace, "send_prelogin")
    /\ SendPacket(PreLogin, PreloginBodyLen, "init_read_prelogin", "connect")
    /\ UNCHANGED <<state, packet_size, opts, op, inbox, login_tokens, prepared,
                   handle, prep_sql, ops_done, stmt_vars, resp>>

\* InternalConnection::read_packet: one logical message, parsed according to the
\* session state
ConnReadPacket(st, q) ==
    LET r == ReadMessage(q)
    IN  IF r.res /= "Ok" THEN [res |-> r.res, tokens |-> << >>, rest |-> r.rest]
        ELSE IF st = "Initial"
        THEN [res |-> IntoPrelogin(r.p), tokens |-> << >>, rest |-> r.rest]
        ELSE IF st = "PreloginPerformed"
        THEN LET g == IntoGeneralTokenStream(r.p)
             IN  [res |-> g.res, tokens |-> g.tokens, rest |-> r.rest]
        ELSE [res |-> "panic", tokens |-> << >>, rest |-> r.rest]

\* read the prelogin response, check it for errors, set PreloginPerformed and
\* send the LOGIN7 message
InitializeReadPrelogin ==
    /\ pc = "init_read_prelogin"
    /\ UNCHANGED codec_vars
    /\ LET r == ConnReadPacket(state, inbox)
           caught == IF r.res = "Ok" THEN CatchError(r.tokens) ELSE r.res
       IN  /\ r.res /= "Block"
           /\ inbox' = r.rest
           /\ IF caught /= "Ok"
              THEN /\ trace' = Append(trace, "read_prelogin")
                   /\ ReturnErr("connect", caught)
                   /\ UNCHANGED <<state, pkt, body_len, out, send_status, out_base,
                                  nwritten, nalloc, last_alloc, last_packet_id,
                                  awaiting, broken>>
              ELSE /\ trace' = trace \o <<"read_prelogin", "set_PreloginPerformed",
                                          "send_login7">>
                   /\ state' = "PreloginPerformed"
                   /\ SendPacket(Login, LoginBodyLen(opts), "init_read_login", "connect")
    /\ UNCHANGED <<packet_size, opts, op, login_tokens, prepared, handle, prep_sql,
                   ops_done, stmt_vars, resp>>

\* read the login response, check it for errors, take the packet size from its
\* ENVCHANGE tokens and set Ready
InitializeReadLogin ==
    /\ pc = "init_read_login"
    /\ UNCHANGED codec_vars
    /\ LET r == ConnReadPacket(state, inbox)
           caught == IF r.res = "Ok" THEN CatchError(r.tokens) ELSE r.res
           size == PacketSizeLoop(r.tokens, 1, packet_size)
       IN  /\ r.res /= "Block"
           /\ inbox' = r.rest
           /\ IF caught /= "Ok"
              THEN /\ trace' = Append(trace, "read_login")
                   /\ ReturnErr("connect", caught)
                   /\ UNCHANGED <<state, packet_size, login_tokens>>
              ELSE IF size = None
              THEN /\ trace' = Append(trace, "read_login")
                   /\ ReturnErr("connect", "Other")
                   /\ UNCHANGED <<state, packet_size, login_tokens>>
              ELSE /\ trace' = trace \o <<"read_login", "set_Ready">>
                   /\ packet_size' = size
                   /\ login_tokens' = r.tokens
                   /\ state' = "Ready"
                   /\ pc' = "idle"
                   /\ result' = "Ok"
                   /\ UNCHANGED <<retval, cont>>
    /\ UNCHANGED <<last_packet_id, opts, op, pkt, body_len, out, send_status, out_base,
                   nwritten, nalloc, last_alloc, awaiting, prepared, handle, prep_sql,
                   ops_done, broken, stmt_vars, resp>>

----------------------------------------------------------------------------
(* Statement surface *)

\* handle_execute_packet: decided by the first token of the stream
HandleExecutePacket(tokens) ==
    IF tokens = << >> THEN [res |-> "Other", val |-> 0]
    ELSE LET tok == tokens[1]
         IN  CASE tok.t = "Error" -> [res |-> "ServerError", val |-> tok.a]
               [] tok.t = "Done" -> IF tok.a = DoneCount
                                    THEN [res |-> "Ok", val |-> tok.b]
                                    ELSE [res |-> "panic", val |-> 0]
               [] OTHER -> [res |-> "Other", val |-> 0]

\* handle_query_packet: the first ERROR token wins, otherwise the ROW tokens are kept
RECURSIVE CountRows(_, _)
CountRows(tokens, i) ==
    IF i > Len(tokens) THEN 0
    ELSE (IF tokens[i].t = "Row" THEN 1 ELSE 0) + CountRows(tokens, i + 1)

\* the rows pushed by the loop of handle_query_packet: row.data of each ROW token
RECURSIVE PushRows(_, _)
PushRows(tokens, i) ==
    IF i > Len(tokens) THEN << >>
    ELSE (IF tokens[i].t = "Row" THEN <<tokens[i].vals>> ELSE << >>)
         \o PushRows(tokens, i + 1)

HandleQueryPacket(tokens) ==
    IF \E i \in 1..Len(tokens) : tokens[i].t = "Error"
    THEN [res |-> "ServerError",
          val |-> tokens[CHOOSE i \in 1..Len(tokens) :
                            /\ tokens[i].t = "Error"
                            /\ \A j \in 1..(i - 1) : tokens[j].t /= "Error"].a,
          rows |-> << >>]
    ELSE [res |-> "Ok", val |-> CountRows(tokens, 1), rows |-> PushRows(tokens, 1)]

\* the token loop of do_prepare: the handle stored so far and whether the loop
\* returned an error
RECURSIVE PrepareLoop(_, _, _)
PrepareLoop(tokens, i, h) ==
    IF i > Len(tokens) THEN [res |-> "Ok", handle |-> h]
    ELSE IF tokens[i].t = "ReturnValue" /\ tokens[i].a = 1
         THEN IF tokens[i].b >= 0 THEN PrepareLoop(tokens, i + 1, tokens[i].b)
              ELSE [res |-> "Other", handle |-> h]
         ELSE PrepareLoop(tokens, i + 1, h)

\* a statement operation returns
Return(res, val) ==
    /\ pc' = IF res = "panic" THEN "panicked" ELSE "idle"
    /\ result' = res
    /\ retval' = val
    /\ cont' = "none"

\* a statement surface that resets the session when an operation returns
StateAfterResets(st, res) == "Initial"

\* InternalConnection.state after a statement operation returned res: execute,
\* execute_into_query and do_prepare never assign it
StateAfter(st, res) == st

\* Connection::exec / StatementInternal::execute, up to its read
Exec(n) ==
    /\ pc = "idle"
    /\ UNCHANGED codec_vars
    /\ ops_done < MaxOps
    /\ op' = "exec"
    /\ ops_done' = ops_done + 1
    /\ column_infos' = << >>
    /\ rows' = << >>
    /\ proc_ids' = << >>
    /\ resp' = << >>
    /\ IF state /= "Ready"
       THEN /\ ReturnErr("exec", "panic")
            /\ UNCHANGED <<pkt, body_len, out, send_status, out_base, nwritten, nalloc,
                           last_alloc, last_packet_id, awaiting, broken>>
       ELSE SendPacket(SqlBatch, SqlBatchBodyLen(n), "exec_read", "exec")
    /\ UNCHANGED <<state, packet_size, opts, inbox, login_tokens, prepared, handle,
                   prep_sql, trace, prep_cols, pq_calls, params, param_str>>

\* StatementInternal::execute after the send: one packet, generic parser
ExecRead ==
    /\ pc = "exec_read"
    /\ UNCHANGED codec_vars
    /\ inbox /= << >>
    /\ LET r == ReadPacket(inbox)
           parsed == IF r.res = "Ok" THEN IntoGeneralTokenStream(r.p)
                     ELSE [res |-> r.res, tokens |-> << >>]
           h == HandleExecutePacket(parsed.tokens)
           res == IF parsed.res /= "Ok" THEN parsed.res ELSE h.res
       IN  /\ inbox' = r.rest
           /\ Return(res, IF parsed.res /= "Ok" THEN 0 ELSE h.val)
           /\ state' = StateAfter(state, res)
    /\ UNCHANGED <<last_packet_id, packet_size, opts, op, pkt, body_len, out,
                   send_status, out_base, nwritten, nalloc, last_alloc, awaiting,
                   login_tokens, prepared, handle, prep_sql, trace, ops_done,
                   broken, stmt_vars, resp>>

\* Connection::query / StatementInternal::execute_into_query, up to its read
Query(n) ==
    /\ pc = "idle"
    /\ UNCHANGED codec_vars
    /\ ops_done < MaxOps
    /\ op' = "query"
    /\ ops_done' = ops_done + 1
    /\ column_infos' = << >>
    /\ rows' = << >>
    /\ proc_ids' = << >>
    /\ resp' = << >>
    /\ IF state /= "Ready"
       THEN /\ ReturnErr("query", "panic")
            /\ UNCHANGED <<pkt, body_len, out, send_status, out_base, nwritten, nalloc,
                           last_alloc, last_packet_id, awaiting, broken>>
       ELSE SendPacket(SqlBatch, SqlBatchBodyLen(n), "query_read", "query")
    /\ UNCHANGED <<state, packet_size, opts, inbox, login_tokens, prepared, handle,
                   prep_sql, trace, prep_cols, pq_calls, params, param_str>>

\* StatementInternal::execute_into_query after the send: one packet,
\* statement-aware parser; the rows share the StatementInfo the parser filled
QueryRead ==
    /\ pc = "query_read"
    /\ UNCHANGED codec_vars
    /\ inbox /= << >>
    /\ LET r == ReadPacket(inbox)
           parsed == IF r.res = "Ok" THEN IntoStmtTokenStream(r.p, column_infos)
                     ELSE [res |-> r.res, tokens |-> << >>, cols |-> column_infos]
           h == HandleQueryPacket(parsed.tokens)
           res == IF parsed.res /= "Ok" THEN parsed.res ELSE h.res
       IN  /\ inbox' = r.rest
           /\ column_infos' = parsed.cols
           /\ rows' = IF res = "Ok" THEN h.rows ELSE << >>
           /\ Return(res, IF parsed.res /= "Ok" THEN 0 ELSE h.val)
           /\ state' = StateAfter(state, res)
    /\ UNCHANGED <<last_packet_id, packet_size, opts, op, pkt, body_len, out,
                   send_status, out_base, nwritten, nalloc, last_alloc, awaiting,
                   login_tokens, prepared, handle, prep_sql, trace, ops_done,
                   broken, prep_cols, pq_calls, proc_ids, params, param_str, resp>>

\* a prepare that calls sp_prepare right away, with an empty declaration string
PrepareEager(n) ==
    /\ pc = "idle"
    /\ UNCHANGED codec_vars
    /\ ~prepared
    /\ prepared' = TRUE
    /\ handle' = None
    /\ prep_sql' = n
    /\ prep_cols' = << >>
    /\ pq_calls' = 0
    /\ op' = "prepare"
    /\ proc_ids' = <<SpPrepare>>
    /\ SendPacket(Rpc, RpcPrepareBodyLen(0, n), "prepare_read", "prepare")
    /\ UNCHANGED <<state, packet_size, opts, inbox, login_tokens, trace, ops_done,
                   column_infos, rows, params, param_str, resp>>

\* Connection::prepare / PreparedStatement::new
Prepare(n) ==
    /\ pc = "idle"
    /\ UNCHANGED codec_vars
    /\ ~prepared
    /\ prepared' = TRUE
    /\ handle' = None
    /\ prep_sql' = n
    /\ prep_cols' = << >>
    /\ pq_calls' = 0
    /\ op' = "prepare"
    /\ Return("Ok", 0)
    /\ UNCHANGED <<state, last_packet_id, packet_size, opts, pkt, body_len, out,
                   send_status, out_base, nwritten, nalloc, last_alloc, inbox, awaiting,
                   login_tokens, trace, ops_done, broken, column_infos, rows, proc_ids,
                   params, param_str, resp>>

\* PreparedStatement::query with the parameter vector ps, up to the read of
\* do_prepare
PreparedQuery(ps) ==
    /\ pc = "idle"
    /\ UNCHANGED codec_vars
    /\ prepared
    /\ ops_done < MaxOps
    /\ op' = "pquery"
    /\ ops_done' = ops_done + 1
    /\ params' = ps
    /\ pq_calls' = pq_calls + 1
    /\ resp' = << >>
    /\ IF handle = None
       THEN LET str == ParamStrLoop(ps, 0, << >>)
            IN  /\ param_str' = str
                /\ proc_ids' = <<SpPrepare>>
                /\ SendPacket(Rpc, RpcPrepareBodyLen(StrLen(str), prep_sql),
                              "prepare_read", "pquery")
       ELSE /\ Return("Ok", 0)
            /\ proc_ids' = << >>
            /\ UNCHANGED <<pkt, body_len, out, send_status, out_base, nwritten, nalloc,
                           last_alloc, last_packet_id, awaiting, broken, param_str>>
    /\ UNCHANGED <<state, packet_size, opts, inbox, login_tokens, prepared, handle,
                   prep_sql, trace, column_infos, rows, prep_cols>>

\* do_prepare after the send: one packet, statement-aware parser, error check,
\* then the handle is taken from the RETURNVALUE named handle; query returns Ok
\* right after do_prepare
PrepareRead ==
    /\ pc = "prepare_read"
    /\ UNCHANGED codec_vars
    /\ inbox /= << >>
    /\ LET r == ReadPacket(inbox)
           parsed == IF r.res = "Ok" THEN IntoStmtTokenStream(r.p, prep_cols)
                     ELSE [res |-> r.res, tokens |-> << >>, cols |-> prep_cols]
           caught == IF parsed.res = "Ok" THEN CatchError(parsed.tokens) ELSE parsed.res
           l == PrepareLoop(parsed.tokens, 1, handle)
           res == IF caught /= "Ok" THEN caught
                  ELSE IF l.res /= "Ok" THEN l.res
                  ELSE IF l.handle = None THEN "Other"
                  ELSE "Ok"
       IN  /\ inbox' = r.rest
           /\ prep_cols' = parsed.cols
           /\ handle' = IF caught /= "Ok" THEN handle ELSE l.handle
           /\ Return(res, 0)
           /\ state' = StateAfter(state, res)
    /\ UNCHANGED <<last_packet_id, packet_size, opts, op, pkt, body_len, out,
                   send_status, out_base, nwritten, nalloc, last_alloc, awaiting,
                   login_tokens, prepared, prep_sql, trace, ops_done, broken,
                   column_infos, rows, pq_calls, proc_ids, params, param_str, resp>>

----------------------------------------------------------------------------

Next ==
    \/ InitializeSendPrelogin
    \/ InitializeReadPrelogin
    \/ InitializeReadLogin
    \/ SendLoop
    \/ ServerRespond
    \/ \E n \in SqlLens : Exec(n)
    \/ ExecRead
    \/ \E n \in SqlLens : Query(n)
    \/ QueryRead
    \/ \E n \in PrepSqlLens : Prepare(n)
    \/ \E ps \in {<<"i32">>} : PreparedQuery(ps)
    \/ PrepareRead

Spec == Init /\ [][Next]_vars

----------------------------------------------------------------------------
(* The statement surface of a connected session *)

\* SQL texts given to exec / query on the connected session: one that is sent
\* unsplit and one that goes through the splitting loop
StmtSqlLens == {241, 2033}

\* the session as connect returns it: the handshake of a client with short
\* options, answered with LOGINACK and DONE; P is the packet size in force
ReadySessionWith(P) ==
    /\ state = "Ready"
    /\ last_packet_id = 2
    /\ packet_size = P
    /\ opts = [user |-> 4, pass |-> 4, db |-> 4]
    /\ pc = "idle"
    /\ cont = "none"
    /\ op = "connect"
    /\ result = "Ok"
    /\ retval = 0
    /\ pkt = BuildPacket(Login, LoginBodyLen(opts), HEADER_SIZE + LoginBodyLen(opts))
    /\ body_len = LoginBodyLen(opts)
    /\ out = <<pkt>>
    /\ send_status = "ok"
    /\ out_base = 1
    /\ nwritten = 2
    /\ nalloc = 2
    /\ last_alloc = 1
    /\ inbox = << >>
    /\ awaiting = << >>
    /\ login_tokens = <<LoginAck, Done(0, 0)>>
    /\ prepared = FALSE
    /\ handle = None
    /\ prep_sql = 0
    /\ trace = HandshakeSteps
    /\ ops_done = 0
    /\ broken = FALSE
    /\ column_infos = << >>
    /\ rows = << >>
    /\ prep_cols = << >>
    /\ pq_calls = 0
    /\ proc_ids = << >>
    /\ params = << >>
    /\ param_str = << >>
    /\ resp = << >>

\* no packet size change in the login response
ReadySession == ReadySessionWith(DefaultPacketSize)

InitReady == ReadySession /\ CodecIdle

NextStmt ==
    \/ SendLoop
    \/ ServerRespondStmt
    \/ \E n \in StmtSqlLens : Exec(n)
    \/ ExecRead
    \/ \E n \in StmtSqlLens : Query(n)
    \/ QueryRead
    \/ \E n \in PrepSqlLens : Prepare(n)
    \/ \E ps \in ParamSets : PreparedQuery(ps)
    \/ PrepareRead

SpecStmt == InitReady /\ [][NextStmt]_vars

----------------------------------------------------------------------------
(* Properties *)

\* send_packet has returned Ok for the message of length body_len whose packets are in out
SendReturnedOk == send_status = "ok"

\* C1: every message written by send_packet ends with an EndOfMessage packet and
\* all its earlier packets are NormalMessage; at least one packet is written
C1_LastPacketEndOfMessage ==
    SendReturnedOk =>
        /\ Len(out) >= 1
        /\ out[Len(out)].status = EndOfMessage
        /\ \A i \in 1..(Len(out) - 1) : out[i].status = NormalMessage

\* C2: a body of exactly packet_size - 8 bytes is written as exactly one packet,
\* and that packet has EndOfMessage set
C2_ExactFitSingleEndOfMessage ==
    (SendReturnedOk /\ body_len = packet_size - HEADER_SIZE) =>
        /\ Len(out) = 1
        /\ out[1].status = EndOfMessage

\* C3: when an operation has returned, every packet of the response it awaited
\* has been read: nothing of it is left on the transport
C3_ResponseFullyRead ==
    (pc = "idle" /\ result \in {"Ok", "ServerError"}) => inbox = << >>

\* the position reached by laying the payloads of packets i.. end to end from pos;
\* None when a payload does not start where the previous one ended
RECURSIVE LaidEndToEnd(_, _, _)
LaidEndToEnd(ps, i, pos) ==
    IF i > Len(ps) THEN pos
    ELSE IF ps[i].lo = pos /\ ps[i].hi >= pos THEN LaidEndToEnd(ps, i + 1, ps[i].hi)
    ELSE None

\* C4: the payloads of the packets written for a message, concatenated in the
\* order written, are the body: bytes 0 .. body_len - 1, each once, in order
C4_PayloadsReproduceBody ==
    SendReturnedOk => LaidEndToEnd(out, 1, 0) = body_len

\* a message was split into three or more packets, the last one partly filled
C4_Witness ==
    /\ SendReturnedOk
    /\ Len(out) >= 3
    /\ DataLen(out[Len(out)]) < packet_size - HEADER_SIZE
    /\ DataLen(out[Len(out)]) > 0

\* C5: every packet written has header length = 8 + payload bytes, and
\* 8 <= length <= packet_size
C5_HeaderLengthInRange ==
    \A i \in 1..Len(out) :
        /\ out[i].length = HEADER_SIZE + DataLen(out[i])
        /\ HEADER_SIZE <= out[i].length
        /\ out[i].length <= packet_size

\* C6: the k-th packet the session writes (k from 0) carries id k mod 255
C6_WireIdsCountPackets ==
    \A i \in 1..Len(out) : out[i].id = (out_base + i - 1) % IdModulus

\* C7: last_packet_id lies in 0..254 and equals the number of alloc_id calls
\* mod 255; alloc_id returned the value the counter had before the increment
C7_CounterCountsAllocations ==
    /\ last_packet_id \in 0..(IdModulus - 1)
    /\ last_packet_id = nalloc % IdModulus
    /\ nalloc > 0 => last_alloc = (nalloc - 1) % IdModulus

\* the counter has wrapped: 256 ids were allocated, the last one handed out is 0
C7_Witness ==
    /\ nalloc = IdModulus + 1
    /\ last_alloc = 0
    /\ last_packet_id = 1

\* the caller holds a Connection: connect has returned Ok
ConnectionHeld == pc = "idle" \/ op /= "connect"

LoginResponseHad(t, a) ==
    \E i \in 1..Len(login_tokens) : login_tokens[i].t = t /\ login_tokens[i].a = a

\* C9: the session is Ready only if the login response held LOGINACK,
\* ENVCHANGE(PacketSize) and DONE
C9_ReadyRequiresLoginAck ==
    state = "Ready" =>
        /\ LoginResponseHad("LoginAck", 0)
        /\ LoginResponseHad("EnvChange", 4)
        /\ \E i \in 1..Len(login_tokens) : login_tokens[i].t = "Done"

\* the new value of the last ENVCHANGE(PacketSize) of the login response,
\* the default when there is none
NegotiatedPacketSize ==
    IF LoginResponseHad("EnvChange", 4)
    THEN login_tokens[CHOOSE i \in 1..Len(login_tokens) :
                         /\ login_tokens[i].t = "EnvChange" /\ login_tokens[i].a = 4
                         /\ \A j \in (i + 1)..Len(login_tokens) :
                               ~(login_tokens[j].t = "EnvChange" /\ login_tokens[j].a = 4)].b
    ELSE DefaultPacketSize

\* C10: once connect has returned, packet_size is the value of the login
\* response's ENVCHANGE(PacketSize), 4096 without one, and no packet of a later
\* message is longer than it
C10_PacketSizeNegotiated ==
    ConnectionHeld =>
        /\ packet_size = NegotiatedPacketSize
        /\ op /= "connect" =>
              \A i \in 1..Len(out) : HEADER_SIZE + DataLen(out[i]) <= packet_size

----------------------------------------------------------------------------
(* Properties of the statement surface *)

StmtOps == {"exec", "query", "pquery", "prepare"}
FatalErrors == {"ProtocolError", "UnexpectedEOF", "IoError"}

\* an exec, query or prepared-statement operation has returned to the caller
StatementReturned == pc = "idle" /\ op \in StmtOps

\* C11: after a statement operation has returned, the session state is Ready or
\* the operation returned a fatal error; after Ok or ServerError it is Ready
C11_ReadyAfterStatement ==
    StatementReturned =>
        /\ state = "Ready" \/ result \in FatalErrors
        /\ result \in {"Ok", "ServerError"} => state = "Ready"

\* the second statement operation of a session, a query answered with an ERROR
\* token, has returned ServerError
C11_Witness ==
    /\ StatementReturned
    /\ op = "query"
    /\ result = "ServerError"
    /\ resp /= << >>
    /\ ops_done = 2
    /\ state = "Ready"

\* C12: after a statement operation failed with ProtocolError, UnexpectedEOF or
\* IoError the session is no longer in state Ready
C12_FatalErrorInvalidates ==
    (StatementReturned /\ result \in FatalErrors) => state /= "Ready"

\* the token stream of a response: the payloads of its packets, concatenated
RECURSIVE ResponseTokens(_)
ResponseTokens(r) ==
    IF r = << >> THEN << >> ELSE Head(r).payload \o ResponseTokens(Tail(r))

\* the server has answered the request of the current operation with a message
ResponseArrived == resp /= << >> /\ \A i \in 1..Len(resp) : resp[i].kind = "pkt"

HasError(tokens) == \E i \in 1..Len(tokens) : tokens[i].t = "Error"

\* the first ERROR token in stream order
FirstError(tokens) ==
    tokens[CHOOSE i \in 1..Len(tokens) :
              /\ tokens[i].t = "Error"
              /\ \A j \in 1..(i - 1) : tokens[j].t /= "Error"]

\* exec or query is over: it has returned or aborted
ExecOrQueryOver == pc \in {"idle", "panicked"} /\ op \in {"exec", "query"}

\* C13: when the response to exec or query contains an ERROR token, the
\* operation returns ServerError with the first ERROR token, the session stays
\* Ready and nothing of the response is left on the transport
C13_ErrorSurfacesAsServerError ==
    (ExecOrQueryOver /\ ResponseArrived /\ HasError(ResponseTokens(resp))) =>
        /\ result = "ServerError"
        /\ retval = FirstError(ResponseTokens(resp)).a
        /\ state = "Ready"
        /\ inbox = << >>

\* the Count bit of a DONE status
HasCountBit(status) == (status \div DoneCount) % 2 = 1

IsCountedDone(tok) == tok.t = "Done" /\ HasCountBit(tok.a)

\* the first DONE token of the stream whose status has the Count bit
FirstCountedDone(tokens) ==
    tokens[CHOOSE i \in 1..Len(tokens) :
              /\ IsCountedDone(tokens[i])
              /\ \A j \in 1..(i - 1) : ~IsCountedDone(tokens[j])]

\* C14: for a response without ERROR token, exec returns the row count of the
\* first DONE token whose status has the Count bit
C14_ExecReturnsFirstCount ==
    (/\ pc \in {"idle", "panicked"} /\ op = "exec"
     /\ ResponseArrived
     /\ ~HasError(ResponseTokens(resp))
     /\ \E i \in 1..Len(ResponseTokens(resp)) : IsCountedDone(ResponseTokens(resp)[i]))
    => /\ result = "Ok"
       /\ retval = FirstCountedDone(ResponseTokens(resp)).b

\* the values of the ROW tokens of a token stream, in stream order, each decoded
\* with the columns of the COLMETADATA before it
RowsOf(tokens) == PushRows(ParseStmtTokens(tokens, 1, << >>, << >>).tokens, 1)

\* C15: for a response without ERROR token, query returns exactly the ROW tokens
\* of the response, in stream order
C15_QueryReturnsAllRows ==
    (/\ pc \in {"idle", "panicked"} /\ op = "query"
     /\ ResponseArrived
     /\ ~HasError(ResponseTokens(resp)))
    => /\ result = "Ok"
       /\ Len(rows) = CountRows(ResponseTokens(resp), 1)
       /\ rows = RowsOf(ResponseTokens(resp))

\* the step is Connection::prepare
PrepareStep == ~prepared /\ prepared'

\* the step writes a packet of an RPC request; sp_prepare is the only RPC sent
WritesRpcPacket == nwritten' > nwritten /\ out'[Len(out')].ptype = Rpc

\* prepare writes no packet, allocates no id and returns a statement without handle
PrepareSendsNothing ==
    PrepareStep =>
        /\ nwritten' = nwritten
        /\ nalloc' = nalloc
        /\ last_packet_id' = last_packet_id
        /\ out' = out
        /\ awaiting' = awaiting
        /\ handle' = None
        /\ result' = "Ok"
        /\ pc' = "idle"

\* C16 as stated: prepare writes no packet, allocates no packet id and returns a
\* statement whose handle is None; the sp_prepare RPC is written only inside the
\* first query call on the statement
C16_SpPrepareOnlyInFirstQuery ==
    [][/\ PrepareSendsNothing
       /\ WritesRpcPacket => (op' = "pquery" /\ pq_calls' = 1)]_vars

\* C16 amended: prepare writes no packet, allocates no packet id and returns a
\* statement whose handle is None; the sp_prepare RPC is written only inside a
\* query call on the statement that found its handle None
C16_SpPrepareOnlyInQueryWithoutHandle ==
    [][/\ PrepareSendsNothing
       /\ WritesRpcPacket => (op' = "pquery" /\ prepared /\ handle = None)]_vars

\* prepare has returned after an earlier statement operation, and a query on the
\* prepared statement has then written its sp_prepare
C16_Witness ==
    /\ op = "pquery"
    /\ pc = "prepare_read"
    /\ pq_calls = 1
    /\ ops_done = 2
    /\ handle = None
    /\ Len(out) = 1 /\ out[1].ptype = Rpc

\* C17: a query call on a prepared statement that returns Ok has written
\* sp_prepare and then sp_execute when it is the call that captured the handle,
\* and only sp_execute when the handle was already there
C17_QuerySendsSpExecute ==
    (pc = "idle" /\ op = "pquery" /\ result = "Ok") =>
        /\ handle /= None
        /\ proc_ids \in {<<SpPrepare, SpExecute>>, <<SpExecute>>}

\* query has handed a QueryResult to the caller
QueryResultHeld == pc = "idle" /\ op = "query" /\ result = "Ok"

\* C18: every Row of a QueryResult has as many values as the StatementInfo it
\* references has column_infos
C18_RowWidthMatchesColumns ==
    QueryResultHeld => \A i \in 1..Len(rows) : Len(rows[i]) = Len(column_infos)

\* C19: a value of a Row is ColumnValue::None only if the flags of its column
\* have the nullable bit set
C19_NullOnlyIfNullable ==
    QueryResultHeld =>
        \A i \in 1..Len(rows) : \A j \in 1..Len(rows[i]) :
            (rows[i][j] = None /\ j <= Len(column_infos)) => IsNullable(column_infos[j])

\* the last statement call ran do_prepare, so param_str was built from params
DoPrepareRan == op = "pquery" /\ proc_ids = <<SpPrepare>>

\* the i-th declaration "@P{i} {type}" sits at pieces 5i-4 .. 5i-1 of str
DeclarationAt(str, ps, i) ==
    /\ str[5 * i - 4] = "@P"
    /\ str[5 * i - 3] = ToStr(i)
    /\ str[5 * i - 2] = " "
    /\ str[5 * i - 1] = column_type(ps[i])

\* C20: the declaration string built by do_prepare for n values is the n items
\* "@P{i} {column_type of the i-th value}", i = 1..n in order, joined by single
\* commas with no leading or trailing comma, and empty for n = 0
C20_ParamStrIsCommaJoined ==
    DoPrepareRan =>
        LET n == Len(params)
        IN  /\ Len(param_str) = IF n = 0 THEN 0 ELSE 5 * n - 1
            /\ \A i \in 1..n : DeclarationAt(param_str, params, i)
            /\ \A i \in 1..(n - 1) : param_str[5 * i] = ","

\* do_prepare has built the string for four values and sent it
C20_Witness ==
    /\ DoPrepareRan
    /\ Len(params) = 4
    /\ pc = "prepare_read"
    /\ param_str[5] = ","

----------------------------------------------------------------------------
(* LOGIN7 password obfuscation *)

MaxEncodings == 2    \* passes of the obfuscation over one byte

XorMask == 165

\* x ^ y on values of the given number of bits
RECURSIVE Xor(_, _, _)
Xor(x, y, bits) ==
    IF bits = 0 THEN 0
    ELSE ((x + y) % 2) + 2 * Xor(x \div 2, y \div 2, bits - 1)

\* an obfuscation that only xors the byte
ObfuscateByteNoSwap(b) == Xor(b, XorMask, 8)

\* the body of the loop over the password bytes:
\* *byte = (*byte >> 4) | ((*byte & 0x0f) << 4); *byte ^= 0xa5;
ObfuscateByte(b) == Xor((b \div 16) + (b % 16) * 16, XorMask, 8)

\* one byte of the UTF-16LE encoding of the password, before any pass
InitObfuscate ==
    /\ ReadySession
    /\ \E b \in 0..255 : obf = [in |-> b, out |-> b, n |-> 0]
    /\ WireIdle
    /\ EnvIdle

\* one pass of the loop body over the byte
EncodePassword ==
    /\ obf.n < MaxEncodings
    /\ obf' = [obf EXCEPT !.out = ObfuscateByte(@), !.n = @ + 1]
    /\ UNCHANGED <<wire, env>>
    /\ UNCHANGED <<state, last_packet_id, packet_size, opts, pc, cont, op, result,
                   retval, pkt, body_len, out, send_status, out_base, nwritten, nalloc,
                   last_alloc, inbox, awaiting, login_tokens, prepared, handle,
                   prep_sql, trace, ops_done, broken, stmt_vars, resp>>

NextObfuscate == EncodePassword

SpecObfuscate == InitObfuscate /\ [][NextObfuscate]_vars

\* C21: the obfuscation is self-inverse, f(f(b)) = b for all 256 byte values
C21_ObfuscationSelfInverse == obf.n = 2 => obf.out = obf.in

\* the inverse of the obfuscation as the server applies it: xor, then swap
Deobfuscate(c) ==
    LET x == Xor(c, XorMask, 8)
    IN  (x \div 16) + (x % 16) * 16

\* C21 (amended): the obfuscation is a bijection on bytes undone by xor 0xA5
\* followed by the nibble swap; applied twice it yields the complement b ^ 0xFF
C21_ObfuscationInvertedByXorThenSwap ==
    /\ obf.n = 1 => Deobfuscate(obf.out) = obf.in
    /\ obf.n = 2 => obf.out = 255 - obf.in

\* the byte 0x70 of a password has gone through two passes
C21_Witness == obf.n = 2 /\ obf.in = 112 /\ obf.out = 143

----------------------------------------------------------------------------
(* One packet on the transport: write_packet's header, read_packet *)

MaxReads == 2        \* reads the transport serves before it ends

\* the values of PacketType and of PacketStatus
PacketTypes == {0, 1, 3, 4, 6, 7, 8, 14, 16, 17, 18}
PacketStatuses == {0, 1, 3, 8, 16}

\* FromPrimitive::from for PacketType / PacketStatus: None for no variant
FromU8PacketType(x) == IF x \in PacketTypes THEN x ELSE None
FromU8PacketStatus(x) == IF x \in PacketStatuses THEN x ELSE None

\* a header writer that emits the length in little-endian order
WriteHeaderLittleEndian(h) ==
    <<h.ptype, h.status, h.length % 256, h.length \div 256, h.spid[1], h.spid[2], h.id,
      h.window>>

\* the eight header bytes write_packet emits: type, status, length (big-endian),
\* spid[0], spid[1], id, window
WriteHeader(h) ==
    <<h.ptype, h.status, h.length \div 256, h.length % 256, h.spid[1], h.spid[2], h.id,
      h.window>>

\* the header part of read_packet: seven read_packet_data! in wire order
ReadHeader(b) ==
    IF FromU8PacketType(b[1]) = None \/ FromU8PacketStatus(b[2]) = None
    THEN [res |-> "ProtocolError", hdr |-> PacketHeaderNew]
    ELSE [res |-> "Ok",
          hdr |-> [ptype |-> FromU8PacketType(b[1]), status |-> FromU8PacketStatus(b[2]),
                   length |-> b[3] * 256 + b[4], spid |-> <<b[5], b[6]>>, id |-> b[7],
                   window |-> b[8]]]

\* the data part of read_packet: a buffer of length - 8 bytes, ONE read into it,
\* and the assertion that the read filled it.  reads are the byte counts the
\* transport returns read by read; when they are used up it returns 0.
ReadData(length, reads) ==
    IF length < HEADER_SIZE THEN [res |-> "panic", got |-> 0]
    ELSE LET need == length - HEADER_SIZE
             n == IF reads = << >> THEN 0 ELSE Head(reads)
         IN  IF n = need THEN [res |-> "Ok", got |-> n]
             ELSE [res |-> "panic", got |-> 0]

RECURSIVE SumSeq(_)
SumSeq(q) == IF q = << >> THEN 0 ELSE Head(q) + SumSeq(Tail(q))

\* header lengths: below the header size, an empty payload, small payloads,
\* payloads whose length needs both length bytes
WireLengths == {7, 8, 9, 10, 264, 65535}

\* the ways a transport can serve up to need bytes in at most MaxReads reads of
\* 1, need - 1 or need bytes
Splits(need) ==
    LET sizes == {1, need - 1, need} \cap (1..need)
        seqs == UNION {[1..k -> sizes] : k \in 0..MaxReads}
    IN  {q \in seqs : SumSeq(q) <= need}

InitWire ==
    /\ ReadySession
    /\ ObfIdle
    /\ EnvIdle
    /\ \E t \in PacketTypes, st \in PacketStatuses, len \in WireLengths,
          sp \in {<<0, 0>>, <<1, 52>>}, i \in {0, 255}, w \in {0, 1} :
          \E q \in Splits(IF len < HEADER_SIZE THEN 0 ELSE len - HEADER_SIZE) :
             wire = [hdr |-> [ptype |-> t, status |-> st, length |-> len, spid |-> sp,
                              id |-> i, window |-> w],
                     bytes |-> << >>, reads |-> q, parsed |-> PacketHeaderNew,
                     got |-> 0, res |-> "none", step |-> "new"]

WireUnchanged ==
    UNCHANGED <<state, last_packet_id, packet_size, opts, pc, cont, op, result,
                retval, pkt, body_len, out, send_status, out_base, nwritten, nalloc,
                last_alloc, inbox, awaiting, login_tokens, prepared, handle,
                prep_sql, trace, ops_done, broken, stmt_vars, resp, obf, env>>

\* write_packet puts the header on the transport
WritePacketHeader ==
    /\ wire.step = "new"
    /\ wire' = [wire EXCEPT !.bytes = WriteHeader(wire.hdr), !.step = "written"]
    /\ WireUnchanged

\* read_packet up to its read of the data: the header
ReadPacketHeader ==
    /\ wire.step = "written"
    /\ LET r == ReadHeader(wire.bytes)
       IN  wire' = [wire EXCEPT !.parsed = r.hdr, !.res = r.res,
                                !.step = IF r.res = "Ok" THEN "header" ELSE "returned"]
    /\ WireUnchanged

\* read_packet from its read of the data to its return
ReadPacketData ==
    /\ wire.step = "header"
    /\ LET r == ReadData(wire.parsed.length, wire.reads)
       IN  wire' = [wire EXCEPT !.got = r.got, !.res = r.res, !.step = "returned"]
    /\ WireUnchanged

NextWire ==
    \/ WritePacketHeader
    \/ ReadPacketHeader
    \/ ReadPacketData

SpecWire == InitWire /\ [][NextWire]_vars

\* C22: for a header whose type is a PacketType, whose status is a PacketStatus
\* and whose length is at least 8, read_packet parses from the eight bytes
\* write_packet emitted the same type, status, length, spid, id and window
C22_HeaderRoundTrip ==
    (/\ wire.step = "header" \/ (wire.step = "returned" /\ wire.res = "Ok")
     /\ wire.hdr.length >= HEADER_SIZE) => wire.parsed = wire.hdr

\* a header with a two-byte length, a non-zero spid, id and window was parsed
C22_Witness ==
    /\ wire.step = "header"
    /\ wire.hdr.length = 264
    /\ wire.hdr.ptype = TabularResult
    /\ wire.hdr.spid = <<1, 52>>
    /\ wire.hdr.id = 255
    /\ wire.parsed.length = 264

\* C25: read_packet returns a payload of exactly length - 8 bytes whenever the
\* transport supplies them, however it splits them across reads, and returns
\* UnexpectedEOF when the transport ends before length - 8 bytes were delivered
C25_PayloadReadInFull ==
    (/\ wire.step = "returned"
     /\ wire.hdr.length >= HEADER_SIZE) =>
        IF SumSeq(wire.reads) = wire.hdr.length - HEADER_SIZE
        THEN wire.res = "Ok" /\ wire.got = wire.hdr.length - HEADER_SIZE
        ELSE wire.res = "UnexpectedEOF"

----------------------------------------------------------------------------
(* The statement-aware token parser *)

\* the step in which execute_into_query parses the packet at the head of the
\* transport and returns
QueryParses ==
    /\ pc = "query_read"
    /\ pc' /= "query_read"
    /\ inbox /= << >>
    /\ Head(inbox).kind = "pkt"

\* the packet was parsed to its end
ParsedToEnd == result' \in {"Ok", "ServerError"}

\* the column cache before token i of a payload, when every COLMETADATA whose
\* count is not 0xFFFF replaces it by the columns of the token
RECURSIVE ColumnsByCount(_, _, _)
ColumnsByCount(payload, i, cols) ==
    IF i <= 1 THEN cols
    ELSE LET tok == payload[i - 1]
             before == ColumnsByCount(payload, i - 1, cols)
         IN  IF tok.t = "Colmetadata" /\ tok.a /= NoMetaData THEN tok.cols ELSE before

\* C23 as stated: a COLMETADATA with count 0xFFFF leaves column_infos unchanged,
\* one with any other count n replaces them by exactly the n columns of the token
C23_AnyOtherCountReplaces ==
    [][(QueryParses /\ ParsedToEnd) =>
          LET payload == Head(inbox).payload
          IN  /\ column_infos' = ColumnsByCount(payload, Len(payload) + 1, column_infos)
              /\ \A i \in 1..Len(payload) :
                    (/\ payload[i].t = "Colmetadata"
                     /\ payload[i].a /= NoMetaData
                     /\ \A j \in (i + 1)..Len(payload) : payload[j].t /= "Colmetadata")
                    => Len(column_infos') = payload[i].a]_vars

\* the COLMETADATA token carries columns: neither its count nor the two bytes
\* after the count are 0xFFFF
CarriesColumns(tok) == tok.t = "Colmetadata" /\ tok.a /= NoMetaData /\ tok.b /= NoMetaData

\* the column cache before token i of a payload, when every COLMETADATA that
\* carries columns replaces it
RECURSIVE ColumnsBefore(_, _, _)
ColumnsBefore(payload, i, cols) ==
    IF i <= 1 THEN cols
    ELSE IF CarriesColumns(payload[i - 1]) THEN payload[i - 1].cols
    ELSE ColumnsBefore(payload, i - 1, cols)

\* the positions of the ROW tokens of a payload, in stream order
RECURSIVE RowPositions(_, _)
RowPositions(payload, i) ==
    IF i > Len(payload) THEN << >>
    ELSE (IF payload[i].t = "Row" THEN <<i>> ELSE << >>) \o RowPositions(payload, i + 1)

\* C23 (amended): a COLMETADATA whose count is 0xFFFF, or whose count is followed
\* by the NoMetaData marker 0xFFFF, leaves column_infos unchanged; every other one
\* replaces column_infos by exactly its n columns (previous entries cleared), and
\* each ROW that follows is decoded against the columns in force at its position
C23_ColmetadataReplacesUnlessNoMetaData ==
    [][(QueryParses /\ ParsedToEnd) =>
          LET payload == Head(inbox).payload
              at == RowPositions(payload, 1)
          IN  /\ column_infos' = ColumnsBefore(payload, Len(payload) + 1, column_infos)
              /\ \A i \in 1..Len(payload) :
                    (/\ CarriesColumns(payload[i])
                     /\ \A j \in (i + 1)..Len(payload) : ~CarriesColumns(payload[j]))
                    => Len(column_infos') = payload[i].a
              /\ result' = "Ok" =>
                    /\ Len(rows') = Len(at)
                    /\ \A k \in 1..Len(at) :
                          Len(rows'[k]) = Len(ColumnsBefore(payload, at[k], column_infos))]_vars

\* query has returned the rows of a response whose second result set came with
\* the count 0xFFFF: both rows were decoded against the two columns of the first
C23_Witness ==
    /\ QueryResultHeld
    /\ resp /= << >>
    /\ \E i \in 1..Len(resp[1].payload) : resp[1].payload[i] = NoColmetadata
    /\ column_infos = TwoCols
    /\ rows = <<<<7, 10>>, <<8, None>>>>

\* token i of the payload is a ROW that the parser meets while the column cache
\* is empty: the tokens before it decode and none of them filled the cache
RowMetWithEmptyCache(payload, i, cols) ==
    /\ payload[i].t = "Row"
    /\ ColumnsBefore(payload, i, cols) = << >>
    /\ \A j \in 1..(i - 1) :
          payload[j].t = "Colmetadata" \/ HandleTokenStream(payload[j]) = "Ok"

\* C24: the statement-aware parser yields a Row only for a ROW token preceded by
\* a COLMETADATA that filled the column cache; a ROW token met while the cache is
\* empty is rejected with an error
C24_RowNeedsColmetadata ==
    [][(/\ QueryParses
        /\ \E i \in 1..Len(Head(inbox).payload) :
              RowMetWithEmptyCache(Head(inbox).payload, i, column_infos))
       => (result' \notin {"Ok", "ServerError"} /\ rows' = << >>)]_vars

\* a token stream with its ORDER tokens taken out
WithoutOrder(payload) == SelectSeq(payload, LAMBDA tok : tok.t /= "Order")

\* C26: a response that contains an ORDER token is parsed successfully by the
\* statement-aware parser: the ORDER token is consumed, parsing continues with
\* the next token, and query returns the rows of the response
C26_OrderTokenIsSkipped ==
    [][(/\ QueryParses
        /\ \E i \in 1..Len(Head(inbox).payload) : Head(inbox).payload[i].t = "Order")
       => LET rest == ParseStmtTokens(WithoutOrder(Head(inbox).payload), 1,
                                      column_infos, << >>)
          IN  (rest.res = "Ok" /\ ~HasError(rest.tokens)) =>
                 /\ result' = "Ok"
                 /\ rows' = PushRows(rest.tokens, 1)]_vars

----------------------------------------------------------------------------
(* send_packet on its own: any body length, any packet size from 9 *)

MaxSends == 1        \* send_packet calls per session

\* packet sizes a server can set through ENVCHANGE, from the smallest that leaves
\* room for one byte of data
SendPacketSizes == {9, 10, 512, 4096}

\* body lengths around the multiples of the room of a packet of size P, and for
\* the default size the lengths around the 16-bit limit of the header length
SendBodyLens(P) ==
    {0, 1, P - 9, P - 8, P - 7, 2 * (P - 8), 2 * (P - 8) + 1}
        \cup (IF P = DefaultPacketSize THEN {65527, 65528, 65636} ELSE {})

\* a connected session whose packet size the server has set
InitSend ==
    /\ \E P \in SendPacketSizes : ReadySessionWith(P)
    /\ CodecIdle

\* InternalConnection::send_packet for a message whose body has L bytes, up to
\* and including its first write
Send(L) ==
    /\ pc = "idle"
    /\ ops_done < MaxSends
    /\ op' = "send"
    /\ ops_done' = ops_done + 1
    /\ SendPacket(SqlBatch, L, "idle", "send")
    /\ UNCHANGED <<state, packet_size, opts, inbox, login_tokens, prepared, handle,
                   prep_sql, trace, stmt_vars, resp>>
    /\ UNCHANGED codec_vars

NextSend ==
    \/ \E L \in SendBodyLens(packet_size) : Send(L)
    \/ SendLoop

\* the splitting loop is straight-line code: once entered it keeps running
SpecSend == InitSend /\ [][NextSend]_vars /\ WF_vars(SendLoop)

\* ceil(L / (P - 8)) for L > 0, and one packet for an empty body
MaxPacketsFor(L, P) == IF L = 0 THEN 1 ELSE (L + (P - HEADER_SIZE) - 1) \div (P - HEADER_SIZE)

\* a pass of the splitting loop that wrote its packet
LoopPassWrote == pc = "send_loop" /\ nwritten' > nwritten

\* C27: send_packet terminates for every body length L >= 0 and every packet
\* size P >= 9: each pass of the splitting loop writes one packet and strictly
\* shrinks the remaining data, at most ceil(L / (P - 8)) packets are written
\* for L > 0 and exactly one for L = 0
C27_SendPacketTerminates ==
    /\ [](op = "send" => Len(out) <= MaxPacketsFor(body_len, packet_size))
    /\ []((op = "send" /\ send_status = "ok" /\ body_len = 0) => Len(out) = 1)
    /\ [][LoopPassWrote => (/\ Len(out') = Len(out) + 1
                            /\ DataLen(pkt') < DataLen(pkt))]_vars
    /\ (pc = "send_loop") ~> (pc /= "send_loop")

\* a body of 2 * (P - 8) + 1 bytes has left the loop after three packets
C27_Witness ==
    /\ op = "send"
    /\ send_status = "ok"
    /\ pc = "idle"
    /\ packet_size = 9
    /\ body_len = 3
    /\ Len(out) = 3

\* C30: the 16-bit length computed for a built message (8 + body length) is
\* never truncated or wrapped: the choice between the single-packet path and the
\* splitting path is taken on the true length, and every header length written
\* equals 8 plus the bytes that follow it
C30_LengthNeverTruncated ==
    op = "send" =>
        /\ send_status /= "panic"
        /\ \A i \in 1..Len(out) : out[i].length = HEADER_SIZE + DataLen(out[i])
        /\ (send_status = "ok" /\ HEADER_SIZE + body_len >= packet_size) =>
               \A i \in 1..Len(out) : HEADER_SIZE + DataLen(out[i]) <= packet_size

----------------------------------------------------------------------------
(* TokenStreamEnvChange::decode on the bytes of a packet *)

EnvChangePacketSize == 4
EnvChangeToken == 227
DoneToken == 253

\* the values of EnvChangeType
EnvChangeTypes == (1..13) \cup (15..20)

\* k copies of the UTF-16LE bytes of the digit '4'
RECURSIVE Utf16Digits(_)
Utf16Digits(k) == IF k = 0 THEN << >> ELSE <<52, 0>> \o Utf16Digits(k - 1)

\* B_VARCHAR of k characters: the length byte and the characters
BVarchar(k) == <<k>> \o Utf16Digits(k)

\* the bytes of an ENVCHANGE PacketSize token after its token byte: the u16
\* length of what follows, the type, the new value of n characters and, unless
\* m is None, the old value of m characters
EnvChangeBytes(n, m) ==
    LET body == <<EnvChangePacketSize>> \o BVarchar(n)
                    \o (IF m = None THEN << >> ELSE BVarchar(m))
    IN  <<Len(body) % 256, Len(body) \div 256>> \o body

\* the byte at cursor position p of the packet data (positions count from 0)
ByteAt(bytes, p) == bytes[p + 1]

\* TokenStreamEnvChange::decode with the cursor at start: the cursor position it
\* leaves and its outcome.  end_pos is start_pos plus the declared length; the
\* old value is read when the cursor is before end_pos after the new value.
EnvChangeDecode(bytes, start) ==
    LET length == ByteAt(bytes, start) + 256 * ByteAt(bytes, start + 1)
        end_pos == start + length
        ty == ByteAt(bytes, start + 2)
        n == ByteAt(bytes, start + 3)
        afterNew == start + 4 + 2 * n
    IN  IF ty \notin EnvChangeTypes THEN [res |-> "ProtocolError", pos |-> start + 3]
        ELSE IF ty /= EnvChangePacketSize THEN [res |-> "panic", pos |-> start + 3]
        ELSE IF afterNew > Len(bytes) THEN [res |-> "panic", pos |-> start + 4]
        ELSE IF afterNew < end_pos
        THEN IF afterNew >= Len(bytes) THEN [res |-> "UnexpectedEOF", pos |-> afterNew]
             ELSE LET m == ByteAt(bytes, afterNew)
                  IN  IF afterNew + 1 + 2 * m > Len(bytes)
                      THEN [res |-> "panic", pos |-> afterNew + 1]
                      ELSE [res |-> "Ok", pos |-> afterNew + 1 + 2 * m]
        ELSE [res |-> "Ok", pos |-> afterNew]

\* the packet data: the tokens before the ENVCHANGE (LOGINACK-sized or none), the
\* ENVCHANGE token byte, the token, and a DONE token after it
EnvPacket(before, n, m) ==
    [i \in 1..before |-> 0] \o <<EnvChangeToken>> \o EnvChangeBytes(n, m)
        \o <<DoneToken, 0, 0, 0, 0, 0, 0, 0, 0>>

InitEnv ==
    /\ ReadySession
    /\ ObfIdle
    /\ WireIdle
    /\ \E before \in {0, 14}, n \in 0..5, m \in {None, 0, 3, 4} :
          env = [bytes |-> EnvPacket(before, n, m), start |-> before + 1,
                 length |-> Len(EnvChangeBytes(n, m)) - 2, pos |-> before + 1,
                 res |-> "none", disc |-> 0, step |-> "token"]

EnvUnchanged ==
    UNCHANGED <<state, last_packet_id, packet_size, opts, pc, cont, op, result,
                retval, pkt, body_len, out, send_status, out_base, nwritten, nalloc,
                last_alloc, inbox, awaiting, login_tokens, prepared, handle,
                prep_sql, trace, ops_done, broken, stmt_vars, resp, obf, wire>>

\* handle_token_stream calls TokenStreamEnvChange::decode
DecodeEnvChange ==
    /\ env.step = "token"
    /\ LET d == EnvChangeDecode(env.bytes, env.start)
       IN  env' = [env EXCEPT !.pos = d.pos, !.res = d.res,
                              !.step = IF d.res = "Ok" THEN "decoded" ELSE "failed"]
    /\ EnvUnchanged

\* the loop of into_general_token_stream reads the next token byte
ReadDiscriminator ==
    /\ env.step = "decoded"
    /\ env.pos < Len(env.bytes)
    /\ env' = [env EXCEPT !.disc = ByteAt(env.bytes, env.pos), !.pos = @ + 1,
                          !.step = "next"]
    /\ EnvUnchanged

NextEnv ==
    \/ DecodeEnvChange
    \/ ReadDiscriminator

SpecEnv == InitEnv /\ [][NextEnv]_vars

\* C29: after decode returned Ok for a PacketSize token the cursor stands at the
\* first byte after the token, token start + 2 + the declared length, for every
\* combination of new-value and old-value lengths including an empty old value;
\* the token loop reads the next token byte from there
C29_CursorAfterEnvChange ==
    /\ env.step = "decoded" => env.pos = env.start + 2 + env.length
    /\ env.step = "next" => env.disc = DoneToken

----------------------------------------------------------------------------
(* The handle of a prepared statement *)

\* the step in which do_prepare reads the answer to sp_prepare and query returns
PrepareParses ==
    /\ pc = "prepare_read"
    /\ pc' /= "prepare_read"
    /\ inbox /= << >>

\* the step is a call of PreparedStatement::query
QueryCalled == pc = "idle" /\ pq_calls' = pq_calls + 1

\* the token stream carries a RETURNVALUE named handle
HasHandleReturnValue(tokens) ==
    \E i \in 1..Len(tokens) : tokens[i].t = "ReturnValue" /\ tokens[i].a = 1

\* the sp_prepare exchange fails on what the transport holds: the read fails, the
\* parse fails, the response contains an ERROR token or no RETURNVALUE named handle
ExchangeFails(p, cols) ==
    \/ p.kind /= "pkt"
    \/ LET parsed == ParseStmtTokens(p.payload, 1, cols, << >>)
       IN  \/ parsed.res /= "Ok"
           \/ HasError(parsed.tokens)
           \/ ~HasHandleReturnValue(parsed.tokens)

\* C28: when the sp_prepare exchange fails (ERROR token, no RETURNVALUE named
\* handle, or the send, read or parse fails) query returns an error and the
\* handle is still None, so the next query call sends sp_prepare again; once the
\* handle is Some, later query calls never change it
C28_HandleNoneAfterFailedPrepare ==
    [][/\ (PrepareParses /\ handle = None /\ ExchangeFails(Head(inbox), prep_cols))
            => (result' /= "Ok" /\ handle' = None)
       /\ (prepared /\ ~PrepareParses) => handle' = handle
       /\ handle /= None => handle' = handle
       /\ (QueryCalled /\ handle = None) => proc_ids' = <<SpPrepare>>
       /\ (QueryCalled /\ handle /= None) => (proc_ids' = << >> /\ nwritten' = nwritten)]_vars

\* the second query call on a statement whose first sp_prepare failed has sent
\* sp_prepare again and failed on an ERROR token: the handle is still None
C28_Witness ==
    /\ pc = "idle"
    /\ op = "pquery"
    /\ pq_calls = 2
    /\ proc_ids = <<SpPrepare>>
    /\ result = "ServerError"
    /\ resp /= << >>
    /\ HasHandleReturnValue(resp[1].payload)
    /\ handle = None

====
